---------------------------- MODULE Spec2Model ----------------------------
(***************************************************************************)
(* Model of the zk-100 host: the instruction model and its 32-bit          *)
(* encoding (instruction.rs), the two-pass assembler and the program       *)
(* encoder (assembler.rs), the Merkle commitment (merkle.rs), the ABI      *)
(* argument encoder (cairo_abi.rs) and the assemble pipeline (main.rs).    *)
(*                                                                         *)
(* A u32 is a vector of 32 bits (bit 0 is the least significant one), so   *)
(* that shifts, masks and ors are computed as the code computes them and   *)
(* no value is cut to the width of the checker's integers.                 *)
(***************************************************************************)
EXTENDS Integers, Sequences, FiniteSets, TLC

VARIABLES
    pc,         \* position of the operation under study
    inst,       \* Inst::encode: the instruction (self)
    word,       \* Inst::encode: the returned u32
    programs,   \* Programs: the 2x2 grid of node programs
    prog_words, \* encode_programs: the returned word sequence
    leaves,     \* merkle_root: the list of field elements
    root,       \* merkle_root: the returned field element
    poseidon_len,   \* the significant bytes of a Poseidon output (environment)
    bytes,          \* compute_program_merkle_root: the returned bytes
    other_programs, \* the grid of a second run of compute_program_merkle_root
    other_bytes,    \* the bytes returned by the second run
    inputs,             \* generate_args: the challenge inputs
    expected,           \* generate_args: the expected outputs
    merkle_root_bytes,  \* generate_args: the commitment root (merkle_root)
    args,               \* generate_args: the returned list of values
    code,               \* parse_assembly: the lines of the source text
    line_no,            \* parse_assembly: the lines the first pass has read
    current_node,       \* parse_assembly: current_node
    node_labels,        \* parse_assembly: node_labels
    node_instructions,  \* parse_assembly: node_instructions
    unvisited,          \* parse_assembly: the entries the second pass has not reached
    parse_result,       \* parse_assembly: the returned Result
    sources,            \* the source texts of the assemble commands still to run
    output,             \* calculate_merkle_root_with_cairo: the calculator's Output
    assemble_result,    \* assemble_program: the returned Result
    assembled           \* the image and the args file of the commands that have run

encodeVars == <<inst, word>>

imageVars == <<programs, prog_words>>

merkleVars == <<leaves, root>>

commitVars == <<poseidon_len, bytes, other_programs, other_bytes>>

argsVars == <<inputs, expected, merkle_root_bytes, args>>

parseVars == <<code, line_no, current_node, node_labels, node_instructions, unvisited,
               parse_result>>

assembleVars == <<sources, output, assemble_result, assembled>>

vars == <<pc, encodeVars, imageVars, merkleVars, commitVars, argsVars, parseVars,
          assembleVars>>

(***************************************************************************)
(* u32 arithmetic                                                          *)
(***************************************************************************)
BitIdx == 0..31

\* n as u32, for 0 <= n < 2^31
U32Of(n) == [i \in BitIdx |-> IF i = 31 THEN 0 ELSE (n \div (2^i)) % 2]

U32Not(x) == [i \in BitIdx |-> 1 - x[i]]

\* n as u32 for an i32 n (two's complement), -2^31 < n < 2^31
I32AsU32(n) == IF n >= 0 THEN U32Of(n) ELSE U32Not(U32Of((-n) - 1))

BitAnd(x, y) == [i \in BitIdx |-> x[i] * y[i]]

BitOr(x, y) == [i \in BitIdx |-> IF x[i] + y[i] > 0 THEN 1 ELSE 0]

\* x << k on 32 bits: the bits shifted past bit 31 are lost
Shl(x, k) == [i \in BitIdx |-> IF i >= k THEN x[i - k] ELSE 0]

(***************************************************************************)
(* Strings (str of the Rust standard library)                              *)
(***************************************************************************)
CharAt(s, i) == SubSeq(s, i, i)

DropFirst(s) == SubSeq(s, 2, Len(s))

DropLast(s) == SubSeq(s, 1, Len(s) - 1)

starts_with(s, prefix) == Len(s) >= Len(prefix) /\ SubSeq(s, 1, Len(prefix)) = prefix

ends_with(s, suffix) ==
    Len(s) >= Len(suffix) /\ SubSeq(s, Len(s) - Len(suffix) + 1, Len(s)) = suffix

WhiteSpace == {" ", "\t"}

RECURSIVE trim_start_matches(_, _)
\* the characters of the set chars taken off the front of s
trim_start_matches(s, chars) ==
    IF Len(s) > 0 /\ CharAt(s, 1) \in chars THEN trim_start_matches(DropFirst(s), chars)
    ELSE s

RECURSIVE trim_end_matches(_, _)
\* the characters of the set chars taken off the end of s
trim_end_matches(s, chars) ==
    IF Len(s) > 0 /\ CharAt(s, Len(s)) \in chars THEN trim_end_matches(DropLast(s), chars)
    ELSE s

trim_matches(s, chars) == trim_end_matches(trim_start_matches(s, chars), chars)

trim(s) == trim_matches(s, WhiteSpace)

RECURSIVE SplitWhitespace(_, _, _)
SplitWhitespace(s, token, tokens) ==
    IF Len(s) = 0 THEN (IF token = "" THEN tokens ELSE Append(tokens, token))
    ELSE IF CharAt(s, 1) \in WhiteSpace
         THEN SplitWhitespace(DropFirst(s), "",
                              IF token = "" THEN tokens ELSE Append(tokens, token))
         ELSE SplitWhitespace(DropFirst(s), token \o CharAt(s, 1), tokens)

\* s.split_whitespace().collect()
split_whitespace(s) == SplitWhitespace(s, "", <<>>)

RECURSIVE Split(_, _, _, _)
Split(s, sep, part, parts) ==
    IF Len(s) = 0 THEN Append(parts, part)
    ELSE IF CharAt(s, 1) = sep THEN Split(DropFirst(s), sep, "", Append(parts, part))
         ELSE Split(DropFirst(s), sep, part \o CharAt(s, 1), parts)

\* s.split(sep).collect() for a character sep
split(s, sep) == Split(s, sep, "", <<>>)

LowerCase == "abcdefghijklmnopqrstuvwxyz"

UpperCase == "ABCDEFGHIJKLMNOPQRSTUVWXYZ"

RECURSIVE IndexOf(_, _, _)
\* the position of the character c in s from position i on, 0 when absent
IndexOf(s, c, i) ==
    IF i > Len(s) THEN 0 ELSE IF CharAt(s, i) = c THEN i ELSE IndexOf(s, c, i + 1)

RECURSIVE to_uppercase(_)
to_uppercase(s) ==
    IF Len(s) = 0 THEN ""
    ELSE LET i == IndexOf(LowerCase, CharAt(s, 1), 1)
         IN  (IF i = 0 THEN CharAt(s, 1) ELSE CharAt(UpperCase, i))
                 \o to_uppercase(DropFirst(s))

(***************************************************************************)
(* Integers from decimal text (str::parse)                                 *)
(***************************************************************************)
Digits == "0123456789"

RECURSIVE AllDigits(_)
AllDigits(s) == Len(s) = 0 \/ (IndexOf(Digits, CharAt(s, 1), 1) # 0 /\ AllDigits(DropFirst(s)))

RECURSIVE AddBits(_, _, _, _, _)
\* ripple-carry addition from bit i upwards; sum holds the bits below i
AddBits(x, y, i, carry, sum) ==
    IF i = 32 THEN [sum |-> [k \in BitIdx |-> sum[k + 1]], carry |-> carry]
    ELSE AddBits(x, y, i + 1, (x[i] + y[i] + carry) \div 2,
                 Append(sum, (x[i] + y[i] + carry) % 2))

\* x + y on 32 bits, with the carry out of bit 31
U32Add(x, y) == AddBits(x, y, 0, 0, <<>>)

RECURSIVE ParseDigits(_, _)
\* the value of the decimal digits of s added to 10 * acc, checked for
\* overflow of 32 bits as checked_mul and checked_add do
ParseDigits(s, acc) ==
    IF Len(s) = 0 THEN [ok |-> TRUE, val |-> acc]
    ELSE LET times8 == Shl(acc, 3)
             times2 == Shl(acc, 1)
             times10 == U32Add(times8, times2)
             digit == U32Of(IndexOf(Digits, CharAt(s, 1), 1) - 1)
             next == U32Add(times10.sum, digit)
         IN  IF acc[31] + acc[30] + acc[29] > 0 \/ times10.carry = 1 \/ next.carry = 1
             THEN [ok |-> FALSE, err |-> "number too large to fit in target type"]
             ELSE ParseDigits(DropFirst(s), next.sum)

\* the digits of s after an optional sign, or the ParseIntError
SignedDigits(s, signs) ==
    LET body == IF Len(s) > 0 /\ CharAt(s, 1) \in signs THEN DropFirst(s) ELSE s
    IN  IF Len(s) = 0 THEN [ok |-> FALSE, err |-> "cannot parse integer from empty string"]
        ELSE IF Len(body) = 0 \/ ~AllDigits(body)
             THEN [ok |-> FALSE, err |-> "invalid digit found in string"]
             ELSE [ok |-> TRUE, val |-> body]

\* s.parse::<u32>()
parse_u32(s) ==
    LET d == SignedDigits(s, {"+"})
    IN  IF d.ok THEN ParseDigits(d.val, U32Of(0)) ELSE d

\* 0 - x on 32 bits
U32Neg(x) == U32Add(U32Not(x), U32Of(1)).sum

\* s.parse::<i32>() followed by `as u32`
parse_i32_as_u32(s) ==
    LET d == SignedDigits(s, {"+", "-"})
        m == ParseDigits(d.val, U32Of(0))
    IN  IF ~d.ok THEN d
        ELSE IF ~m.ok THEN m
        ELSE IF CharAt(s, 1) = "-"
             THEN IF m.val[31] = 1 /\ m.val # Shl(U32Of(1), 31)
                  THEN [ok |-> FALSE, err |-> "number too small to fit in target type"]
                  ELSE [ok |-> TRUE, val |-> U32Neg(m.val)]
             ELSE IF m.val[31] = 1
                  THEN [ok |-> FALSE, err |-> "number too large to fit in target type"]
                  ELSE m

\* the largest usize, 2^64 - 1
UsizeMax == "18446744073709551615"

RECURSIVE DigitsLeq(_, _)
\* a <= b for digit strings of the same length
DigitsLeq(a, b) ==
    IF Len(a) = 0 THEN TRUE
    ELSE LET x == IndexOf(Digits, CharAt(a, 1), 1)
             y == IndexOf(Digits, CharAt(b, 1), 1)
         IN  IF x # y THEN x < y ELSE DigitsLeq(DropFirst(a), DropFirst(b))

\* s.parse::<usize>(); a value above 1 is reported as 2, which is all its
\* caller looks at
parse_usize(s) ==
    LET d == SignedDigits(s, {"+"})
        n == trim_start_matches(d.val, {"0"})
    IN  IF ~d.ok THEN d
        ELSE IF Len(n) > Len(UsizeMax) \/ (Len(n) = Len(UsizeMax) /\ ~DigitsLeq(n, UsizeMax))
             THEN [ok |-> FALSE, err |-> "number too large to fit in target type"]
             ELSE [ok |-> TRUE, val |-> IF n = "" THEN 0 ELSE IF n = "1" THEN 1 ELSE 2]

(***************************************************************************)
(* Instruction model                                                       *)
(***************************************************************************)
Op == [Mov |-> 1, Add |-> 2, Sub |-> 3, Neg |-> 4, Sav |-> 5, Swp |-> 6,
       Jmp |-> 7, Jz |-> 8, Jnz |-> 9, Jgz |-> 10, Jlz |-> 11, Nop |-> 12,
       Hlt |-> 13]

PortTag == [Up |-> 0, Down |-> 1, Left |-> 2, Right |-> 3]

Src_Lit(v) == [tag |-> "Lit", val |-> v]

Src_P(port) == [tag |-> "P", port |-> port]

Src_Acc == [tag |-> "Acc"]

Src_Nil == [tag |-> "Nil"]

Src_In == [tag |-> "In"]

Src_Last == [tag |-> "Last"]

Dst_P(port) == [tag |-> "P", port |-> port]

Dst_Acc == [tag |-> "Acc"]

Dst_Nil == [tag |-> "Nil"]

Dst_Out == [tag |-> "Out"]

Dst_Last == [tag |-> "Last"]

Inst(op, src, dst) == [op |-> op, src |-> src, dst |-> dst]

Src_to_code(src) ==
    CASE src.tag = "Lit" -> 0
      [] src.tag = "Acc" -> 1
      [] src.tag = "Nil" -> 2
      [] src.tag = "In" -> 3
      [] src.tag = "P" -> 4
      [] src.tag = "Last" -> 5

Dst_to_code(dst) ==
    CASE dst.tag = "Acc" -> 0
      [] dst.tag = "Nil" -> 1
      [] dst.tag = "Out" -> 2
      [] dst.tag = "P" -> 3
      [] dst.tag = "Last" -> 4

\* the two port shifts exchanged
encode_ports_swapped(i) ==
    LET lit_val == IF i.src.tag = "Lit" THEN i.src.val ELSE U32Of(0)
        src_port == IF i.src.tag = "P" THEN U32Of(PortTag[i.src.port]) ELSE U32Of(0)
        dst_port == IF i.dst.tag = "P" THEN U32Of(PortTag[i.dst.port]) ELSE U32Of(0)
    IN  BitOr(BitOr(BitOr(BitOr(BitOr(
            Shl(BitAnd(lit_val, U32Of(255)), 24),
            Shl(BitAnd(src_port, U32Of(3)), 20)),
            Shl(BitAnd(dst_port, U32Of(3)), 22)),
            Shl(BitAnd(U32Of(Op[i.op]), U32Of(15)), 16)),
            Shl(BitAnd(U32Of(Src_to_code(i.src)), U32Of(255)), 8)),
            BitAnd(U32Of(Dst_to_code(i.dst)), U32Of(255)))

\* the source tag shifted by 4 instead of 8, so that it runs into the
\* destination tag
encode_src_tag_overlaps(i) ==
    LET lit_val == IF i.src.tag = "Lit" THEN i.src.val ELSE U32Of(0)
        src_port == IF i.src.tag = "P" THEN U32Of(PortTag[i.src.port]) ELSE U32Of(0)
        dst_port == IF i.dst.tag = "P" THEN U32Of(PortTag[i.dst.port]) ELSE U32Of(0)
    IN  BitOr(BitOr(BitOr(BitOr(BitOr(
            Shl(BitAnd(lit_val, U32Of(255)), 24),
            Shl(BitAnd(src_port, U32Of(3)), 22)),
            Shl(BitAnd(dst_port, U32Of(3)), 20)),
            Shl(BitAnd(U32Of(Op[i.op]), U32Of(15)), 16)),
            Shl(BitAnd(U32Of(Src_to_code(i.src)), U32Of(255)), 4)),
            BitAnd(U32Of(Dst_to_code(i.dst)), U32Of(255)))

encode(i) ==
    LET lit_val == IF i.src.tag = "Lit" THEN i.src.val ELSE U32Of(0)
        src_port == IF i.src.tag = "P" THEN U32Of(PortTag[i.src.port]) ELSE U32Of(0)
        dst_port == IF i.dst.tag = "P" THEN U32Of(PortTag[i.dst.port]) ELSE U32Of(0)
    IN  BitOr(BitOr(BitOr(BitOr(BitOr(
            Shl(BitAnd(lit_val, U32Of(255)), 24),
            Shl(BitAnd(src_port, U32Of(3)), 22)),
            Shl(BitAnd(dst_port, U32Of(3)), 20)),
            Shl(BitAnd(U32Of(Op[i.op]), U32Of(15)), 16)),
            Shl(BitAnd(U32Of(Src_to_code(i.src)), U32Of(255)), 8)),
            BitAnd(U32Of(Dst_to_code(i.dst)), U32Of(255)))

(***************************************************************************)
(* Parsing of operations and operands.  A Result is [ok |-> TRUE, val]     *)
(* or [ok |-> FALSE, err] with the message of the error.                   *)
(***************************************************************************)
Ok(v) == [ok |-> TRUE, val |-> v]

Err(message) == [ok |-> FALSE, err |-> message]

Op_from_str(s) ==
    LET upper == to_uppercase(s)
    IN  CASE upper = "MOV" -> Ok("Mov")
          [] upper = "ADD" -> Ok("Add")
          [] upper = "SUB" -> Ok("Sub")
          [] upper = "NEG" -> Ok("Neg")
          [] upper = "SAV" -> Ok("Sav")
          [] upper = "SWP" -> Ok("Swp")
          [] upper = "JMP" -> Ok("Jmp")
          [] upper = "JZ" -> Ok("Jz")
          [] upper = "JNZ" -> Ok("Jnz")
          [] upper = "JGZ" -> Ok("Jgz")
          [] upper = "JLZ" -> Ok("Jlz")
          [] upper = "NOP" -> Ok("Nop")
          [] upper = "HLT" -> Ok("Hlt")
          [] OTHER -> Err("Unknown operation: " \o s)

PortTag_from_str(s) ==
    LET upper == to_uppercase(s)
    IN  CASE upper = "UP" -> Ok("Up")
          [] upper = "DOWN" -> Ok("Down")
          [] upper = "LEFT" -> Ok("Left")
          [] upper = "RIGHT" -> Ok("Right")
          [] OTHER -> Err("Unknown port: " \o s)

Src_from_str(s) ==
    LET upper == to_uppercase(s)
    IN  CASE upper = "ACC" -> Ok(Src_Acc)
          [] upper = "NIL" -> Ok(Src_Nil)
          [] upper = "IN" -> Ok(Src_In)
          [] upper = "LAST" -> Ok(Src_Last)
          [] OTHER ->
                IF starts_with(upper, "P:")
                THEN LET port == PortTag_from_str(SubSeq(upper, 3, Len(upper)))
                     IN  IF port.ok THEN Ok(Src_P(port.val)) ELSE port
                ELSE IF parse_u32(s).ok THEN Ok(Src_Lit(parse_u32(s).val))
                ELSE IF parse_i32_as_u32(s).ok THEN Ok(Src_Lit(parse_i32_as_u32(s).val))
                ELSE Err("Invalid source operand: " \o s)

Dst_from_str(s) ==
    LET upper == to_uppercase(s)
    IN  CASE upper = "ACC" -> Ok(Dst_Acc)
          [] upper = "NIL" -> Ok(Dst_Nil)
          [] upper = "OUT" -> Ok(Dst_Out)
          [] upper = "LAST" -> Ok(Dst_Last)
          [] OTHER ->
                IF starts_with(upper, "P:")
                THEN LET port == PortTag_from_str(SubSeq(upper, 3, Len(upper)))
                     IN  IF port.ok THEN Ok(Dst_P(port.val)) ELSE port
                ELSE Err("Invalid destination operand: " \o s)

(***************************************************************************)
(* Program encoder                                                         *)
(***************************************************************************)
RECURSIVE PushInsts(_, _, _)
\* for inst in program { prog_words.push(inst.encode()) }, from index k on
PushInsts(words, program, k) ==
    IF k > Len(program) THEN words
    ELSE PushInsts(Append(words, encode(program[k])), program, k + 1)

RECURSIVE PushRow(_, _, _)
\* for program in row { push the length, then the instructions }
PushRow(words, row, c) ==
    IF c > Len(row) THEN words
    ELSE PushRow(PushInsts(Append(words, U32Of(Len(row[c]))), row[c], 1), row, c + 1)

RECURSIVE PushRows(_, _, _)
\* for row in programs
PushRows(words, progs, r) ==
    IF r > Len(progs) THEN words
    ELSE PushRows(PushRow(words, progs[r], 1), progs, r + 1)

\* the columns walked before the rows
encode_programs_column_major(progs) ==
    PushRows(<<>>, << <<progs[1][1], progs[2][1]>>, <<progs[1][2], progs[2][2]>> >>, 1)

encode_programs(progs) == PushRows(<<>>, progs, 1)

(***************************************************************************)
(* Field elements and the Merkle reduction                                 *)
(*                                                                         *)
(* A field element is either a 32-bit number or an output of the Poseidon  *)
(* hash.  The hash of starknet_crypto is not computed: hash_pair builds    *)
(* the term of its two arguments, so that two outputs are equal exactly    *)
(* when their arguments are, and an output is never a 32-bit number.       *)
(***************************************************************************)
\* BigUint::from(x) for a u32 x
BigUintFrom(w) == [felt |-> "u32", val |-> w]

\* BigUint::from(0u32)
ZeroFelt == BigUintFrom(U32Of(0))

\* the arguments handed to the hash in the other order
hash_pair_swapped(left, right) == [felt |-> "poseidon", left |-> right, right |-> left]

hash_pair(left, right) == [felt |-> "poseidon", left |-> left, right |-> right]

RECURSIVE PowerOfTwo(_, _)
\* while power < current_level.len() { power *= 2 }
PowerOfTwo(power, len) == IF power < len THEN PowerOfTwo(power * 2, len) ELSE power

RECURSIVE PadLevel_last(_, _)
\* the last element repeated instead of zero
PadLevel_last(level, power) ==
    IF Len(level) < power THEN PadLevel_last(Append(level, level[Len(level)]), power)
    ELSE level

RECURSIVE PadLevel(_, _)
\* while current_level.len() < power { current_level.push(0) }
PadLevel(level, power) ==
    IF Len(level) < power THEN PadLevel(Append(level, ZeroFelt), power) ELSE level

RECURSIVE HashLevel(_, _, _)
\* for i in (0..current_level.len()).step_by(2), i counted from 1 here
HashLevel(level, i, next_level) ==
    IF i > Len(level) THEN next_level
    ELSE LET left == level[i]
             right == IF i + 1 <= Len(level) THEN level[i + 1] ELSE ZeroFelt
         IN  HashLevel(level, i + 2, Append(next_level, hash_pair(left, right)))

RECURSIVE BuildLevels(_)
\* while current_level.len() > 1 { current_level = next_level }
BuildLevels(level) ==
    IF Len(level) > 1 THEN BuildLevels(HashLevel(level, 1, <<>>)) ELSE level

\* a single leaf hashed with zero instead of returned
merkle_root_hashes_single(lvs) ==
    IF Len(lvs) = 0 THEN ZeroFelt
    ELSE IF Len(lvs) = 1 THEN hash_pair(lvs[1], ZeroFelt)
    ELSE BuildLevels(PadLevel(lvs, PowerOfTwo(1, Len(lvs))))[1]

merkle_root(lvs) ==
    IF Len(lvs) = 0 THEN ZeroFelt
    ELSE IF Len(lvs) = 1 THEN lvs[1]
    ELSE BuildLevels(PadLevel(lvs, PowerOfTwo(1, Len(lvs))))[1]

(***************************************************************************)
(* Commitment over the grid                                                *)
(*                                                                         *)
(* The bytes of a field element: a known byte is [val |-> b]; byte k of    *)
(* the big-endian form of a Poseidon output h is the term                  *)
(* [of |-> h, at |-> k].  The number of significant bytes of a Poseidon    *)
(* output is given by the environment (at most 32, the field is below      *)
(* 2^252).                                                                 *)
(***************************************************************************)
Byte(b) == [val |-> b]

\* the number held by bits 8k+7 .. 8k of w
ByteOfU32(w, k) ==
    w[8 * k] + 2 * w[8 * k + 1] + 4 * w[8 * k + 2] + 8 * w[8 * k + 3]
        + 16 * w[8 * k + 4] + 32 * w[8 * k + 5] + 64 * w[8 * k + 6] + 128 * w[8 * k + 7]

\* BigUint::to_bytes_be: big-endian without leading zero bytes, [0] for zero
to_bytes_be(v, hash_len) ==
    IF v.felt = "u32"
    THEN LET n == IF ByteOfU32(v.val, 3) # 0 THEN 4
                  ELSE IF ByteOfU32(v.val, 2) # 0 THEN 3
                  ELSE IF ByteOfU32(v.val, 1) # 0 THEN 2 ELSE 1
         IN  [k \in 1..n |-> Byte(ByteOfU32(v.val, n - k))]
    ELSE [k \in 1..hash_len |-> [of |-> v, at |-> k]]

\* the root bytes copied to the front, zeros behind them
pad_to_32_zeros_behind(root_bytes) ==
    LET len == Len(root_bytes)
    IN  [k \in 1..32 |-> IF k <= len THEN root_bytes[k] ELSE Byte(0)]

\* let mut bytes = vec![0u8; 32]; bytes[start..].copy_from_slice(..)
pad_to_32(root_bytes) ==
    LET len == Len(root_bytes)
        start == IF len > 32 THEN 0 ELSE 32 - len
        from == IF len > 32 THEN len - 32 ELSE 0
    IN  [k \in 1..32 |-> IF k <= start THEN Byte(0) ELSE root_bytes[from + (k - start)]]

RECURSIVE ProgData(_, _, _)
\* for inst in program { prog_data.push(BigUint::from(inst.encode())) }
ProgData(prog_data, program, k) ==
    IF k > Len(program) THEN prog_data
    ELSE ProgData(Append(prog_data, BigUintFrom(encode(program[k]))), program, k + 1)

\* the value pushed on node_merkle_roots for one node
NodeRoot(program) ==
    IF Len(program) = 0 THEN ZeroFelt ELSE merkle_root(ProgData(<<>>, program, 1))

RECURSIVE NodeRootsOfRow(_, _, _)
\* for program in row
NodeRootsOfRow(node_merkle_roots, row, c) ==
    IF c > Len(row) THEN node_merkle_roots
    ELSE NodeRootsOfRow(Append(node_merkle_roots, NodeRoot(row[c])), row, c + 1)

RECURSIVE NodeRootsOfRows(_, _, _)
\* for row in programs
NodeRootsOfRows(node_merkle_roots, progs, r) ==
    IF r > Len(progs) THEN node_merkle_roots
    ELSE NodeRootsOfRows(NodeRootsOfRow(node_merkle_roots, progs[r], 1), progs, r + 1)

compute_program_merkle_root(progs, hash_len) ==
    LET node_merkle_roots == NodeRootsOfRows(<<>>, progs, 1)
        final_root == merkle_root(node_merkle_roots)
        root_bytes == to_bytes_be(final_root, hash_len)
    IN  pad_to_32(root_bytes)

(***************************************************************************)
(* ABI argument encoder                                                    *)
(***************************************************************************)
HexDigits == <<"0", "1", "2", "3", "4", "5", "6", "7", "8", "9",
               "a", "b", "c", "d", "e", "f">>

RECURSIVE HexOfNibbles(_, _, _)
\* the digits of the nibbles from index k on, leading zeros left out
HexOfNibbles(nibbles, k, started) ==
    IF k > Len(nibbles) THEN (IF started THEN "" ELSE "0")
    ELSE IF nibbles[k] = 0 /\ ~started THEN HexOfNibbles(nibbles, k + 1, FALSE)
    ELSE HexDigits[nibbles[k] + 1] \o HexOfNibbles(nibbles, k + 1, TRUE)

\* the number held by bits 4k+3 .. 4k of w
NibbleOfU32(w, k) == w[4 * k] + 2 * w[4 * k + 1] + 4 * w[4 * k + 2] + 8 * w[4 * k + 3]

\* Value::String(format!("0x{:x}", val))
json_value_from_u32(val) ==
    "0x" \o HexOfNibbles([k \in 1..8 |-> NibbleOfU32(val, 8 - k)], 1, FALSE)

\* format!("0x{}", BigUint::from_bytes_be(bytes).to_str_radix(16))
bytes_to_felt252(bs) ==
    "0x" \o HexOfNibbles([k \in 1..(2 * Len(bs)) |->
                            IF k % 2 = 1 THEN bs[(k + 1) \div 2].val \div 16
                            ELSE bs[k \div 2].val % 16], 1, FALSE)

json_value_from_bytes(bs) == bytes_to_felt252(bs)

RECURSIVE PushU32s(_, _, _)
\* for &x in xs { args.push(json_value_from_u32(x)) }
PushU32s(args_, xs, k) ==
    IF k > Len(xs) THEN args_
    ELSE PushU32s(Append(args_, json_value_from_u32(xs[k])), xs, k + 1)

\* the root pushed after the program words instead of before their length
generate_args_root_last(inputs_, expected_, root_bytes, words) ==
    LET a1 == PushU32s(<<json_value_from_u32(U32Of(Len(inputs_)))>>, inputs_, 1)
        a2 == PushU32s(Append(a1, json_value_from_u32(U32Of(Len(expected_)))), expected_, 1)
        a3 == PushU32s(Append(a2, json_value_from_u32(U32Of(Len(words)))), words, 1)
    IN  Append(a3, json_value_from_bytes(root_bytes))

generate_args(inputs_, expected_, root_bytes, words) ==
    LET a1 == PushU32s(<<json_value_from_u32(U32Of(Len(inputs_)))>>, inputs_, 1)
        a2 == PushU32s(Append(a1, json_value_from_u32(U32Of(Len(expected_)))), expected_, 1)
        a3 == Append(a2, json_value_from_bytes(root_bytes))
    IN  PushU32s(Append(a3, json_value_from_u32(U32Of(Len(words)))), words, 1)

(***************************************************************************)
(* Assembler                                                               *)
(*                                                                         *)
(* A HashMap is a function on the set of its keys.  A node coordinate is   *)
(* the pair <<r, c>>; Option<(usize, usize)> is <<>> for None.             *)
(***************************************************************************)
None == <<>>

\* HashMap::new()
EmptyMap == <<>>

\* map.insert(k, v): the value of an existing key is replaced
Insert(map, k, v) == (k :> v) @@ map

\* the value of an existing key is replaced by the new one
OrInsert_replaces(map, k, v) == (k :> v) @@ map

\* map.entry(k).or_insert_with(|| v): the value of an existing key is kept
OrInsert(map, k, v) == map @@ (k :> v)

\* the coordinates are not compared with the size of the grid
parse_node_coords_unchecked(s) ==
    LET coords == split(trim_matches(s, {"(", ")"}), ",")
        r == parse_usize(trim(coords[1]))
        c == parse_usize(trim(coords[2]))
    IN  IF Len(coords) # 2 THEN Err("Invalid node coordinates: " \o s)
        ELSE IF ~r.ok THEN r
        ELSE IF ~c.ok THEN c
        ELSE Ok(<<r.val, c.val>>)

parse_node_coords(s) ==
    LET coords == split(trim_matches(s, {"(", ")"}), ",")
        r == parse_usize(trim(coords[1]))
        c == parse_usize(trim(coords[2]))
    IN  IF Len(coords) # 2 THEN Err("Invalid node coordinates: " \o s)
        ELSE IF ~r.ok THEN r
        ELSE IF ~c.ok THEN c
        ELSE IF r.val >= 2 \/ c.val >= 2
             THEN Err("Node coordinates must be in 2x2 grid: " \o s)
             ELSE Ok(<<r.val, c.val>>)

parse_src_operand(s, labels) ==
    IF s \in DOMAIN labels THEN Ok(Src_Lit(U32Of(labels[s]))) ELSE Src_from_str(s)

parse_instruction(line, labels) ==
    LET parts == split_whitespace(line)
        op == Op_from_str(parts[1])
    IN  IF Len(parts) = 0 THEN Err("Empty instruction line")
        ELSE IF ~op.ok THEN op
        ELSE IF op.val \in {"Nop", "Hlt", "Neg", "Sav", "Swp"}
             THEN Ok(Inst(op.val, Src_Nil, Dst_Nil))
        ELSE IF op.val \in {"Add", "Sub", "Jmp", "Jz", "Jnz", "Jgz", "Jlz"}
             THEN IF Len(parts) < 2 THEN Err("Missing operand for " \o parts[1])
                  ELSE LET src == parse_src_operand(parts[2], labels)
                       IN  IF ~src.ok THEN src ELSE Ok(Inst(op.val, src.val, Dst_Nil))
        ELSE IF Len(parts) < 3 THEN Err("MOV requires two operands")
             ELSE LET src == parse_src_operand(trim_end_matches(parts[2], {","}), labels)
                      dst == Dst_from_str(parts[3])
                  IN  IF ~src.ok THEN src
                      ELSE IF ~dst.ok THEN dst
                      ELSE Ok(Inst(op.val, src.val, dst.val))

RECURSIVE ParseLines_skips_failed(_, _, _, _)
\* a line that does not parse is left out and the loop goes on
ParseLines_skips_failed(inst_lines, labels, k, program) ==
    IF k > Len(inst_lines) THEN Ok(program)
    ELSE LET parsed == parse_instruction(inst_lines[k], labels)
         IN  IF ~parsed.ok THEN ParseLines_skips_failed(inst_lines, labels, k + 1, program)
             ELSE ParseLines_skips_failed(inst_lines, labels, k + 1,
                                          Append(program, parsed.val))

RECURSIVE ParseLines(_, _, _, _)
\* for (line, _) in inst_lines { program.push(parse_instruction(&line, labels)?) }
ParseLines(inst_lines, labels, k, program) ==
    IF k > Len(inst_lines) THEN Ok(program)
    ELSE LET parsed == parse_instruction(inst_lines[k], labels)
         IN  IF ~parsed.ok THEN parsed
             ELSE ParseLines(inst_lines, labels, k + 1, Append(program, parsed.val))

\* the label bound at its first declaration: a later one is ignored
DeclareLabel_first_wins(labels, label_name, inst_count) ==
    OrInsert(labels, label_name, inst_count)

\* node_labels.get_mut(&(r, c)).unwrap().insert(label_name, inst_count)
DeclareLabel(labels, label_name, inst_count) == Insert(labels, label_name, inst_count)

\* a NODE line without coordinate token clears the current node
NodeDeclaration_resets(st, parts) ==
    LET coords == parse_node_coords(parts[2])
    IN  IF Len(parts) >= 2
        THEN IF ~coords.ok THEN coords
             ELSE Ok([current_node |-> coords.val,
                      node_labels |-> OrInsert(st.node_labels, coords.val, EmptyMap),
                      node_instructions |-> OrInsert(st.node_instructions, coords.val, <<>>)])
        ELSE Ok([st EXCEPT !.current_node = None])

\* if line.starts_with("NODE") { ... continue; } for the tokens parts of the
\* line, on the state st of the loop
NodeDeclaration(st, parts) ==
    LET coords == parse_node_coords(parts[2])
    IN  IF Len(parts) >= 2
        THEN IF ~coords.ok THEN coords
             ELSE Ok([current_node |-> coords.val,
                      node_labels |-> OrInsert(st.node_labels, coords.val, EmptyMap),
                      node_instructions |-> OrInsert(st.node_instructions, coords.val, <<>>)])
        ELSE Ok(st)

\* the label is entered in the table of every node declared so far
LabelDeclaration_all_nodes(st, line) ==
    LET node == st.current_node
        label_name == trim_end_matches(line, {":"})
        inst_count == IF node \in DOMAIN st.node_instructions
                      THEN Len(st.node_instructions[node]) ELSE 0
    IN  IF node # None
        THEN Ok([st EXCEPT !.node_labels =
                    [n \in DOMAIN @ |-> DeclareLabel(@[n], label_name, inst_count)]])
        ELSE Ok(st)

\* if line.ends_with(':') { ... continue; }
LabelDeclaration(st, line) ==
    LET node == st.current_node
        label_name == trim_end_matches(line, {":"})
        inst_count == IF node \in DOMAIN st.node_instructions
                      THEN Len(st.node_instructions[node]) ELSE 0
    IN  IF node # None
        THEN Ok([st EXCEPT !.node_labels =
                    Insert(@, node, DeclareLabel(@[node], label_name, inst_count))])
        ELSE Ok(st)

\* a line without current node is stored for node (0, 0)
StoreInstruction_default_node(st, line) ==
    LET node == IF st.current_node # None THEN st.current_node ELSE <<0, 0>>
    IN  Ok([st EXCEPT !.node_labels = OrInsert(@, node, EmptyMap),
                      !.node_instructions =
                          Insert(@, node, Append(OrInsert(@, node, <<>>)[node], line))])

\* if let Some((r, c)) = current_node { node_instructions...push((line, None)) }
StoreInstruction(st, line) ==
    LET node == st.current_node
    IN  IF node # None
        THEN Ok([st EXCEPT !.node_instructions = Insert(@, node, Append(@[node], line))])
        ELSE Ok(st)

\* what one line of the first pass does to the state st of the loop:
\* [current_node, node_labels, node_instructions], and the error of a `?`
FirstPassLine(st, raw_line) ==
    LET line == trim(raw_line)
    IN  IF line = "" \/ starts_with(line, "#") \/ starts_with(line, "//")
        THEN Ok(st)
        ELSE IF starts_with(line, "NODE")
        THEN NodeDeclaration(st, split_whitespace(line))
        ELSE IF ends_with(line, ":")
        THEN LabelDeclaration(st, line)
        ELSE StoreInstruction(st, line)

\* the node program the second pass builds for one entry of node_instructions
SecondPassNode(node, inst_lines, labels) == ParseLines(inst_lines, labels, 1, <<>>)

(***************************************************************************)
(* The root read back from the Cairo merkle calculator                     *)
(***************************************************************************)
\* str::contains
contains(s, pattern) ==
    \E k \in 1..(Len(s) - Len(pattern) + 1) : SubSeq(s, k, k + Len(pattern) - 1) = pattern

\* A BigUint is the sequence of its base-256 digits, the least significant
\* first and the most significant not zero; zero is the empty sequence.
RECURSIVE MulAdd(_, _, _)
\* n * m + carry
MulAdd(n, m, carry) ==
    IF n = <<>>
    THEN (IF carry = 0 THEN <<>> ELSE <<carry % 256>> \o MulAdd(<<>>, m, carry \div 256))
    ELSE LET t == Head(n) * m + carry
         IN  <<t % 256>> \o MulAdd(Tail(n), m, t \div 256)

RECURSIVE NatOfDigits(_, _)
\* the number acc followed by the decimal digits s, for a number below 2^31
NatOfDigits(s, acc) ==
    IF Len(s) = 0 THEN acc
    ELSE NatOfDigits(DropFirst(s), acc * 10 + IndexOf(Digits, CharAt(s, 1), 1) - 1)

RECURSIVE BigUintOfDigits(_, _)
\* the number acc followed by the decimal digits s, six digits at a time
BigUintOfDigits(s, acc) ==
    IF Len(s) = 0 THEN acc
    ELSE LET k == IF Len(s) < 6 THEN Len(s) ELSE 6
         IN  CHOOSE n \in {BigUintOfDigits(SubSeq(s, k + 1, Len(s)), next) :
                              next \in {MulAdd(acc, NatOfDigits(SubSeq("1000000", 1, k + 1), 0),
                                               NatOfDigits(SubSeq(s, 1, k), 0))}} :
                  TRUE

RECURSIVE BigUintLess(_, _)
\* a < b
BigUintLess(a, b) ==
    IF Len(a) # Len(b) THEN Len(a) < Len(b)
    ELSE IF Len(a) = 0 THEN FALSE
    ELSE IF a[Len(a)] # b[Len(b)] THEN a[Len(a)] < b[Len(b)]
    ELSE BigUintLess(SubSeq(a, 1, Len(a) - 1), SubSeq(b, 1, Len(b) - 1))

RECURSIVE Normalized(_)
\* without most significant zero digits
Normalized(n) ==
    IF Len(n) > 0 /\ n[Len(n)] = 0 THEN Normalized(SubSeq(n, 1, Len(n) - 1)) ELSE n

RECURSIVE SubDigits(_, _, _)
\* the digits of a - b - borrow, for a >= b + borrow
SubDigits(a, b, borrow) ==
    IF a = <<>> THEN <<>>
    ELSE LET y == (IF b = <<>> THEN 0 ELSE Head(b)) + borrow
             rest == IF b = <<>> THEN <<>> ELSE Tail(b)
         IN  IF Head(a) >= y
             THEN <<Head(a) - y>> \o SubDigits(Tail(a), rest, 0)
             ELSE <<Head(a) + 256 - y>> \o SubDigits(Tail(a), rest, 1)

BigUintSub(a, b) == Normalized(SubDigits(a, b, 0))

\* BigInt::parse_bytes(s, 10): a sign and a magnitude, None for no number
BigInt_parse_bytes(s) ==
    LET negative == starts_with(s, "-")
        digits == IF negative \/ starts_with(s, "+") THEN DropFirst(s) ELSE s
        mag == BigUintOfDigits(digits, <<>>)
    IN  IF Len(digits) = 0 \/ ~AllDigits(digits) THEN None
        ELSE [negative |-> negative /\ mag # <<>>, mag |-> mag]

\* Cairo's felt252 prime
prime_str == "3618502788666131213697322783095070105623107215331596699973092056135872020481"

prime == BigInt_parse_bytes(prime_str).mag

\* BigInt::to_bytes_be: the bytes of the magnitude, the most significant
\* first, one zero byte for zero
BigInt_to_bytes_be(mag) ==
    IF mag = <<>> THEN <<Byte(0)>>
    ELSE [k \in 1..Len(mag) |-> Byte(mag[Len(mag) + 1 - k])]

RECURSIVE ProgramOutputAt(_, _)
\* the first line from k on that contains "Program output:", 0 for none
ProgramOutputAt(lines, k) ==
    IF k > Len(lines) THEN 0
    ELSE IF contains(lines[k], "Program output:") THEN k
    ELSE ProgramOutputAt(lines, k + 1)

\* the 32 bytes returned for the lines of the calculator's output
parse_cairo_merkle_output(lines) ==
    LET at == ProgramOutputAt(lines, 1)
        merkle_str == trim(lines[at + 2])
        merkle_bigint == BigInt_parse_bytes(merkle_str)
        positive_merkle ==
            IF merkle_bigint.negative
            THEN (IF BigUintLess(prime, merkle_bigint.mag)
                  THEN BigUintSub(merkle_bigint.mag, prime)
                  ELSE BigUintSub(prime, merkle_bigint.mag))
            ELSE merkle_bigint.mag
        bs == BigInt_to_bytes_be(positive_merkle)
        start == IF Len(bs) > 32 THEN Len(bs) - 32 ELSE 0
        copy_start == IF Len(bs) < 32 THEN 32 - Len(bs) ELSE 0
    IN  IF at = 0 THEN Err("Could not find 'Program output:' in Cairo output")
        ELSE IF at + 2 > Len(lines)
        THEN Err("Could not find merkle root value in Cairo output")
        ELSE IF merkle_bigint = None
        THEN Err("Failed to parse merkle root: " \o merkle_str)
        ELSE Ok([k \in 1..32 |-> IF k <= copy_start THEN Byte(0)
                                 ELSE bs[start + k - copy_start]])

\* the Output of Command::output() for the calculator: spawned or not, its
\* exit status and what it wrote
Output(spawned, success, stdout, stderr) ==
    [spawned |-> spawned, success |-> success, stdout |-> stdout, stderr |-> stderr]

\* _prog_words is not used: the calculator is run without arguments
calculate_merkle_root_with_cairo(_prog_words, out) ==
    IF ~out.spawned THEN Err("Failed to run Cairo merkle calculator")
    ELSE IF ~out.success
    THEN Err("Cairo merkle calculator failed: " \o out.stderr)
    ELSE parse_cairo_merkle_output(out.stdout)

(***************************************************************************)
(* Specifications: one per operation under study.  The variables of the    *)
(* operations a specification does not run keep their idle values.         *)
(***************************************************************************)
NoWord == U32Of(0)

\* vec![vec![vec![], vec![]], vec![vec![], vec![]]]
EmptyPrograms == << << <<>>, <<>> >>, << <<>>, <<>> >> >>

EncodeIdle == inst = Inst("Nop", Src_Nil, Dst_Nil) /\ word = NoWord

ImageIdle == programs = EmptyPrograms /\ prog_words = <<>>

MerkleIdle == leaves = <<>> /\ root = ZeroFelt

CommitIdle ==
    /\ poseidon_len = 32
    /\ bytes = <<>>
    /\ other_programs = EmptyPrograms
    /\ other_bytes = <<>>

ArgsIdle ==
    /\ inputs = <<>>
    /\ expected = <<>>
    /\ merkle_root_bytes = <<>>
    /\ args = <<>>

\* no Result yet
NoResult == [ok |-> FALSE, err |-> ""]

ParseIdle ==
    /\ code = <<>>
    /\ line_no = 0
    /\ current_node = None
    /\ node_labels = EmptyMap
    /\ node_instructions = EmptyMap
    /\ unvisited = {}
    /\ parse_result = NoResult

\* the calculator has not been run
NoOutput == Output(FALSE, FALSE, <<>>, "")

AssembleIdle ==
    /\ sources = <<>>
    /\ output = NoOutput
    /\ assemble_result = NoResult
    /\ assembled = <<>>

\* the idle values of every group of variables but those named in S
IdleExcept(S) ==
    /\ IF "encode" \in S THEN TRUE ELSE EncodeIdle
    /\ IF "image" \in S THEN TRUE ELSE ImageIdle
    /\ IF "merkle" \in S THEN TRUE ELSE MerkleIdle
    /\ IF "commit" \in S THEN TRUE ELSE CommitIdle
    /\ IF "args" \in S THEN TRUE ELSE ArgsIdle
    /\ IF "parse" \in S THEN TRUE ELSE ParseIdle
    /\ IF "assemble" \in S THEN TRUE ELSE AssembleIdle

\* every group of variables but those named in S is left alone
KeepExcept(S) ==
    /\ IF "encode" \in S THEN TRUE ELSE UNCHANGED encodeVars
    /\ IF "image" \in S THEN TRUE ELSE UNCHANGED imageVars
    /\ IF "merkle" \in S THEN TRUE ELSE UNCHANGED merkleVars
    /\ IF "commit" \in S THEN TRUE ELSE UNCHANGED commitVars
    /\ IF "args" \in S THEN TRUE ELSE UNCHANGED argsVars
    /\ IF "parse" \in S THEN TRUE ELSE UNCHANGED parseVars
    /\ IF "assemble" \in S THEN TRUE ELSE UNCHANGED assembleVars

RECURSIVE SeqsUpTo(_, _)
\* the sequences over S of length at most n
SeqsUpTo(S, n) ==
    IF n = 0 THEN {<<>>}
    ELSE LET shorter == SeqsUpTo(S, n - 1)
         IN  shorter \cup {Append(q, x) : q \in shorter, x \in S}

(***************************************************************************)
(* Inputs of Inst::encode: every operation with every source and every     *)
(* destination operand (encode takes any structurally valid value)         *)
(***************************************************************************)
\* 42 and 298 agree on their low byte; the last one is the literal "-5"
LitPool == {U32Of(0), U32Of(1), U32Of(42), U32Of(255), U32Of(256), U32Of(298),
            I32AsU32(-5)}

Ops == DOMAIN Op

Ports == DOMAIN PortTag

SrcPool == {Src_Lit(v) : v \in LitPool} \cup {Src_P(p) : p \in Ports}
               \cup {Src_Acc, Src_Nil, Src_In, Src_Last}

DstPool == {Dst_P(p) : p \in Ports} \cup {Dst_Acc, Dst_Nil, Dst_Out, Dst_Last}

InstPool == {Inst(op, src, dst) : op \in Ops, src \in SrcPool, dst \in DstPool}

InitEncode ==
    /\ pc = "encode"
    /\ inst \in InstPool
    /\ word = NoWord
    /\ IdleExcept({"encode"})

Encode ==
    /\ pc = "encode"
    /\ word' = encode(inst)
    /\ pc' = "encoded"
    /\ UNCHANGED inst
    /\ KeepExcept({"encode"})

NextEncode == Encode

SpecEncode == InitEncode /\ [][NextEncode]_vars

\* the longest node program of the grids given to the encoder
MaxProgLen == 2

\* NOP and an instruction with a literal and a port
ImageInsts == {Inst("Nop", Src_Nil, Dst_Nil),
               Inst("Mov", Src_Lit(U32Of(42)), Dst_P("Right"))}

ImagePrograms == SeqsUpTo(ImageInsts, MaxProgLen)

InitImage ==
    /\ pc = "encode_programs"
    /\ \E p00 \in ImagePrograms, p01 \in ImagePrograms,
          p10 \in ImagePrograms, p11 \in ImagePrograms :
            programs = << <<p00, p01>>, <<p10, p11>> >>
    /\ prog_words = <<>>
    /\ IdleExcept({"image"})

EncodePrograms ==
    /\ pc = "encode_programs"
    /\ prog_words' = encode_programs(programs)
    /\ pc' = "image"
    /\ UNCHANGED programs
    /\ KeepExcept({"image"})

NextImage == EncodePrograms

SpecImage == InitImage /\ [][NextImage]_vars

\* the longest list of leaves given to merkle_root
MaxLeaves == 5

\* three numbers and zero
FeltPool == {BigUintFrom(U32Of(100)), BigUintFrom(U32Of(200)), BigUintFrom(U32Of(12345)),
             ZeroFelt}

InitMerkle ==
    /\ pc = "merkle_root"
    /\ leaves \in SeqsUpTo(FeltPool, MaxLeaves)
    /\ root = ZeroFelt
    /\ IdleExcept({"merkle"})

MerkleRoot ==
    /\ pc = "merkle_root"
    /\ root' = merkle_root(leaves)
    /\ pc' = "root"
    /\ UNCHANGED leaves
    /\ KeepExcept({"merkle"})

NextMerkle == MerkleRoot

SpecMerkle == InitMerkle /\ [][NextMerkle]_vars

\* the most instructions of a grid given to compute_program_merkle_root
MaxCommitInsts == 3

\* the instructions of the first grid
CommitInsts == {Inst("Nop", Src_Nil, Dst_Nil), Inst("Add", Src_Lit(U32Of(42)), Dst_Nil)}

\* the instructions a change can bring in: ADD 298 has the encoding of ADD 42
EditInsts == CommitInsts \cup {Inst("Add", Src_Lit(U32Of(298)), Dst_Nil)}

\* the node programs that leave the grid with at most MaxCommitInsts
\* instructions when used instructions are in it already
CommitPrograms(used) == SeqsUpTo(CommitInsts, MaxCommitInsts - used)

\* the grids of at most MaxCommitInsts instructions
CommitGrids ==
    UNION {UNION {UNION {{<< <<p00, p01>>, <<p10, p11>> >> :
            p11 \in CommitPrograms(Len(p00) + Len(p01) + Len(p10))} :
            p10 \in CommitPrograms(Len(p00) + Len(p01))} :
            p01 \in CommitPrograms(Len(p00))} :
            p00 \in CommitPrograms(0)}

\* the programs one change away from p: one instruction replaced, one
\* appended, or the last one dropped (and p itself)
ProgramEdits(p) ==
    {[p EXCEPT ![k] = x] : k \in 1..Len(p), x \in EditInsts}
        \cup {Append(p, x) : x \in EditInsts}
        \cup {SubSeq(p, 1, Len(p) - 1)}

\* the grids that differ from g in one node by one change
GridEdits(g) ==
    UNION {{[g EXCEPT ![rc[1]][rc[2]] = q] : q \in ProgramEdits(g[rc[1]][rc[2]])} :
                rc \in (1..2) \X (1..2)}

\* the significant bytes of the Poseidon outputs of a run
PoseidonLens == {31, 32}

InitCommit ==
    /\ pc = "commit"
    /\ programs \in CommitGrids
    /\ prog_words = <<>>
    /\ other_programs \in GridEdits(programs)
    /\ poseidon_len \in PoseidonLens
    /\ bytes = <<>>
    /\ other_bytes = <<>>
    /\ IdleExcept({"image", "commit"})

\* compute_program_merkle_root on the first grid
Commit ==
    /\ pc = "commit"
    /\ bytes' = compute_program_merkle_root(programs, poseidon_len)
    /\ pc' = "commit_other"
    /\ UNCHANGED <<programs, prog_words, other_programs, poseidon_len, other_bytes>>
    /\ KeepExcept({"image", "commit"})

\* compute_program_merkle_root on the second grid
CommitOther ==
    /\ pc = "commit_other"
    /\ other_bytes' = compute_program_merkle_root(other_programs, poseidon_len)
    /\ pc' = "committed"
    /\ UNCHANGED <<programs, prog_words, other_programs, poseidon_len, bytes>>
    /\ KeepExcept({"image", "commit"})

NextCommit == Commit \/ CommitOther

SpecCommit == InitCommit /\ [][NextCommit]_vars

\* the longest list of inputs, of expected values and of program words
\* given to generate_args
MaxArgLen == 2

\* the u32 values given to generate_args: 0x2a and 0xfffffffb
ArgValues == {U32Of(42), I32AsU32(-5)}

\* the root bytes given to generate_args: 32 zero bytes, the bytes of the
\* test of cairo_abi.rs, and a 32-byte root with one leading zero byte
ArgRoots == {[k \in 1..32 |-> Byte(0)],
             <<Byte(18), Byte(52), Byte(86), Byte(120)>>,
             [k \in 1..32 |-> IF k = 1 THEN Byte(0) ELSE Byte(k)]}

InitArgs ==
    /\ pc = "generate_args"
    /\ inputs \in SeqsUpTo(ArgValues, MaxArgLen)
    /\ expected \in SeqsUpTo(ArgValues, MaxArgLen)
    /\ merkle_root_bytes \in ArgRoots
    /\ prog_words \in SeqsUpTo(ArgValues, MaxArgLen)
    /\ programs = EmptyPrograms
    /\ args = <<>>
    /\ IdleExcept({"image", "args"})

GenerateArgs ==
    /\ pc = "generate_args"
    /\ args' = generate_args(inputs, expected, merkle_root_bytes, prog_words)
    /\ pc' = "args"
    /\ UNCHANGED <<inputs, expected, merkle_root_bytes, imageVars>>
    /\ KeepExcept({"image", "args"})

NextArgs == GenerateArgs

SpecArgs == InitArgs /\ [][NextArgs]_vars

\* parse_assembly is entered with the source text source_lines
ParseEntry(source_lines) ==
    /\ code = source_lines
    /\ pc = IF Len(code) = 0 THEN "second_pass" ELSE "first_pass"
    /\ programs = EmptyPrograms
    /\ line_no = 0
    /\ current_node = None
    /\ node_labels = EmptyMap
    /\ node_instructions = EmptyMap
    /\ unvisited = {}
    /\ parse_result = NoResult

\* one turn of `for line in code.lines()`
ReadLine ==
    /\ pc = "first_pass"
    /\ line_no < Len(code)
    /\ LET st == FirstPassLine([current_node |-> current_node,
                                node_labels |-> node_labels,
                                node_instructions |-> node_instructions],
                               code[line_no + 1])
       IN  IF st.ok
           THEN /\ current_node' = st.val.current_node
                /\ node_labels' = st.val.node_labels
                /\ node_instructions' = st.val.node_instructions
                /\ line_no' = line_no + 1
                /\ pc' = IF line_no + 1 = Len(code) THEN "second_pass" ELSE "first_pass"
                /\ unvisited' = IF line_no + 1 = Len(code)
                                THEN DOMAIN st.val.node_instructions ELSE {}
                /\ UNCHANGED parse_result
           ELSE /\ parse_result' = st
                /\ pc' = "parsed"
                /\ line_no' = line_no + 1
                /\ UNCHANGED <<current_node, node_labels, node_instructions, unvisited>>
    /\ UNCHANGED <<code, programs, prog_words>>
    /\ KeepExcept({"image", "parse"})

\* one turn of `for ((r, c), inst_lines) in node_instructions`: a HashMap
\* hands out its entries in an order of its own
ParseNode ==
    /\ pc = "second_pass"
    /\ \E node \in unvisited :
          LET program == SecondPassNode(node, node_instructions[node], node_labels[node])
          IN  IF program.ok
              THEN /\ programs' = [programs EXCEPT ![node[1] + 1][node[2] + 1] = program.val]
                   /\ unvisited' = unvisited \ {node}
                   /\ UNCHANGED <<pc, parse_result>>
              ELSE /\ parse_result' = program
                   /\ pc' = "parsed"
                   /\ UNCHANGED <<programs, unvisited>>
    /\ UNCHANGED <<code, line_no, current_node, node_labels, node_instructions, prog_words>>
    /\ KeepExcept({"image", "parse"})

\* Ok(programs)
ParseReturn ==
    /\ pc = "second_pass"
    /\ unvisited = {}
    /\ parse_result' = Ok(programs)
    /\ pc' = "parsed"
    /\ UNCHANGED <<code, line_no, current_node, node_labels, node_instructions, unvisited,
                   programs, prog_words>>
    /\ KeepExcept({"image", "parse"})

NextParse == ReadLine \/ ParseNode \/ ParseReturn

\* the longest source text of the label specification, in lines
MaxLabelLines == 5

\* two nodes, one label, an instruction without operand label and a jump
LabelLines == {"NODE (0,0)", "NODE (0,1)", "loop:", "ADD 1", "JNZ loop"}

InitParseLabels ==
    /\ \E source_lines \in SeqsUpTo(LabelLines, MaxLabelLines) : ParseEntry(source_lines)
    /\ prog_words = <<>>
    /\ IdleExcept({"image", "parse"})

SpecParseLabels == InitParseLabels /\ [][NextParse]_vars

\* the longest source text of the operand specification, in lines
MaxOperandLines == 3

\* one node; an operation of each arity with too few operands, with its
\* operands, and with one operand more
OperandLines ==
    {"NODE (0,0)", "NOP", "NOP 5", "ADD", "ADD 1", "ADD 1 2",
     "MOV ACC", "MOV 1, ACC", "MOV 1, ACC NIL"}

InitParseOperands ==
    /\ \E source_lines \in SeqsUpTo(OperandLines, MaxOperandLines) : ParseEntry(source_lines)
    /\ prog_words = <<>>
    /\ IdleExcept({"image", "parse"})

SpecParseOperands == InitParseOperands /\ [][NextParse]_vars

\* the longest source text of the node specification, in lines
MaxNodeLines == 3

\* NODE lines for two nodes of the grid, with a row outside the grid, with
\* a column that is no number, with one component, without token, and
\* written without space; an instruction, an unknown operation and a label
NodeLines ==
    {"NODE (0,1)", "NODE (1,0)", "NODE (2,0)", "NODE (0,x)", "NODE (0)",
     "NODE", "NODE(0,1)", "NOP", "FOO", "top:"}

InitParseNodes ==
    /\ \E source_lines \in SeqsUpTo(NodeLines, MaxNodeLines) : ParseEntry(source_lines)
    /\ prog_words = <<>>
    /\ IdleExcept({"image", "parse"})

SpecParseNodes == InitParseNodes /\ [][NextParse]_vars

\* the longest source text of the error specification, in lines
MaxErrorLines == 4

\* two nodes, two instructions, and a line with an unknown operation, with
\* an unknown port and with a malformed operand
ErrorLines ==
    {"NODE (0,0)", "NODE (0,1)", "NOP", "ADD 1", "FOO", "MOV ACC, P:DIAG", "ADD 1x"}

InitParseErrors ==
    /\ \E source_lines \in SeqsUpTo(ErrorLines, MaxErrorLines) : ParseEntry(source_lines)
    /\ prog_words = <<>>
    /\ IdleExcept({"image", "parse"})

SpecParseErrors == InitParseErrors /\ [][NextParse]_vars

\* the longest source text of the scope specification, in lines
MaxScopeLines == 4

\* two nodes, a label that is no operand, a label that reads as a number
\* and a label that reads as an operand keyword, and a jump to each
ScopeLines ==
    {"NODE (0,0)", "NODE (0,1)", "loop:", "1:", "ACC:", "JMP loop", "JMP 1", "JMP ACC"}

InitParseScopes ==
    /\ \E source_lines \in SeqsUpTo(ScopeLines, MaxScopeLines) : ParseEntry(source_lines)
    /\ prog_words = <<>>
    /\ IdleExcept({"image", "parse"})

SpecParseScopes == InitParseScopes /\ [][NextParse]_vars

(***************************************************************************)
(* assemble_program, run for one source text after another                 *)
(***************************************************************************)
\* let programs = assembler::parse_assembly(&assembly_code)?;
\* let prog_words = assembler::encode_programs(&programs)?;
EncodeImage ==
    /\ pc = "parsed"
    /\ IF parse_result.ok
       THEN /\ prog_words' = encode_programs(parse_result.val)
            /\ pc' = "calculate_merkle_root"
            /\ UNCHANGED assemble_result
       ELSE /\ assemble_result' = parse_result
            /\ pc' = "assembled"
            /\ UNCHANGED prog_words
    /\ UNCHANGED <<programs, parseVars, argsVars, sources, output, assembled>>
    /\ KeepExcept({"image", "parse", "args", "assemble"})

\* let merkle_root = calculate_merkle_root_with_cairo(&prog_words)?;
\* what the calculator answers is the environment's choice
CalculateMerkleRoot(calculator) ==
    /\ pc = "calculate_merkle_root"
    /\ output' = calculator
    /\ LET root_bytes == calculate_merkle_root_with_cairo(prog_words, calculator)
       IN  IF root_bytes.ok
           THEN /\ merkle_root_bytes' = root_bytes.val
                /\ pc' = "generate_args"
                /\ UNCHANGED assemble_result
           ELSE /\ assemble_result' = root_bytes
                /\ pc' = "assembled"
                /\ UNCHANGED merkle_root_bytes
    /\ UNCHANGED <<imageVars, parseVars, inputs, expected, args, sources, assembled>>
    /\ KeepExcept({"image", "parse", "args", "assemble"})

\* let args = cairo_abi::generate_args(&inputs, &expected, &merkle_root, &prog_words)?;
\* fs::write(&output_path, ...); Ok(())
WriteArgs ==
    /\ pc = "generate_args"
    /\ args' = generate_args(inputs, expected, merkle_root_bytes, prog_words)
    /\ assemble_result' = Ok(<<>>)
    /\ pc' = "assembled"
    /\ UNCHANGED <<imageVars, parseVars, inputs, expected, merkle_root_bytes, sources,
                   output, assembled>>
    /\ KeepExcept({"image", "parse", "args", "assemble"})

\* the next assemble command: assemble_program is entered with the next
\* source text and the same inputs and expected values
NextCommand ==
    /\ pc = "assembled"
    /\ sources # <<>>
    /\ assembled' = Append(assembled, [result |-> assemble_result,
                                       code |-> code,
                                       prog_words |-> prog_words,
                                       args |-> args])
    /\ code' = Head(sources)
    /\ sources' = Tail(sources)
    /\ pc' = IF Len(Head(sources)) = 0 THEN "second_pass" ELSE "first_pass"
    /\ programs' = EmptyPrograms
    /\ prog_words' = <<>>
    /\ line_no' = 0
    /\ current_node' = None
    /\ node_labels' = EmptyMap
    /\ node_instructions' = EmptyMap
    /\ unvisited' = {}
    /\ parse_result' = NoResult
    /\ output' = NoOutput
    /\ assemble_result' = NoResult
    /\ merkle_root_bytes' = <<>>
    /\ args' = <<>>
    /\ UNCHANGED <<inputs, expected>>
    /\ KeepExcept({"image", "parse", "args", "assemble"})

\* the source texts assembled: one instruction in one node, the same node
\* with another instruction, the same instruction in another node, a text
\* without node, and an unknown operation
AssembleSources ==
    {<<"NODE (0,0)", "NOP">>,
     <<"NODE (0,0)", "HLT">>,
     <<"NODE (1,1)", "NOP">>,
     <<"# empty">>,
     <<"NODE (0,0)", "FOO">>}

\* what the calculator can answer: a root, another root, a negative root, an
\* output without root, a failure, and no calculator to run
CalculatorOutputs ==
    {Output(TRUE, TRUE, <<"Program output:", "0", "305419896">>, ""),
     Output(TRUE, TRUE, <<"Compiling zk100_merkle_calc", "Program output:", "0",
                          " 1311768467463790320">>, ""),
     Output(TRUE, TRUE, <<"Program output:", "0", "-1">>, ""),
     Output(TRUE, TRUE, <<"Program output:", "0">>, ""),
     Output(TRUE, FALSE, <<>>, "error: package not found"),
     Output(FALSE, FALSE, <<>>, "")}

InitAssemble ==
    /\ \E first \in AssembleSources :
          /\ ParseEntry(first)
          /\ sources \in {<<second>> : second \in AssembleSources}
    /\ prog_words = <<>>
    /\ inputs \in {<<>>, <<U32Of(42)>>}
    /\ expected \in {<<>>, <<I32AsU32(-5)>>}
    /\ merkle_root_bytes = <<>>
    /\ args = <<>>
    /\ output = NoOutput
    /\ assemble_result = NoResult
    /\ assembled = <<>>
    /\ IdleExcept({"image", "parse", "args", "assemble"})

NextAssemble ==
    \/ ReadLine
    \/ ParseNode
    \/ ParseReturn
    \/ EncodeImage
    \/ \E calculator \in CalculatorOutputs : CalculateMerkleRoot(calculator)
    \/ WriteArgs
    \/ NextCommand

SpecAssemble == InitAssemble /\ [][NextAssemble]_vars

\* the source texts assembled twice: two nodes that both hold an unknown
\* operation, two nodes in interleaved sections, and one node
RepeatedSources ==
    {<<"NODE (0,0)", "FOO", "NODE (0,1)", "BAR">>,
     <<"NODE (0,1)", "NOP", "NODE (0,0)", "HLT", "NODE (0,1)", "HLT">>,
     <<"NODE (0,0)", "NOP">>}

\* assemble_program is run twice on the same source text
InitAssembleTwice ==
    /\ \E source_lines \in RepeatedSources :
          /\ ParseEntry(source_lines)
          /\ sources = <<source_lines>>
    /\ prog_words = <<>>
    /\ inputs \in {<<>>, <<U32Of(42)>>}
    /\ expected \in {<<>>, <<I32AsU32(-5)>>}
    /\ merkle_root_bytes = <<>>
    /\ args = <<>>
    /\ output = NoOutput
    /\ assemble_result = NoResult
    /\ assembled = <<>>
    /\ IdleExcept({"image", "parse", "args", "assemble"})

SpecAssembleTwice == InitAssembleTwice /\ [][NextAssemble]_vars

(***************************************************************************)
(* Properties of Inst::encode                                              *)
(***************************************************************************)
BitOfNat(n, k) == (n \div (2^k)) % 2

\* the u32 whose four bytes are b3 (most significant), b2, b1, b0
WordOfBytes(b3, b2, b1, b0) ==
    [i \in BitIdx |->
        CASE i < 8 -> BitOfNat(b0, i)
          [] i >= 8 /\ i < 16 -> BitOfNat(b1, i - 8)
          [] i >= 16 /\ i < 24 -> BitOfNat(b2, i - 16)
          [] i >= 24 -> BitOfNat(b3, i - 24)]

SrcPortCode(i) == IF i.src.tag = "P" THEN PortTag[i.src.port] ELSE 0

DstPortCode(i) == IF i.dst.tag = "P" THEN PortTag[i.dst.port] ELSE 0

LitBit(i, k) == IF i.src.tag = "Lit" THEN i.src.val[k] ELSE 0

\* C2: encode puts the low 8 bits of the source literal in bits 31-24 (0 when
\* the source is no literal), the source port code in bits 23-22, the
\* destination port code in bits 21-20 (0 when the operand is no port), the
\* operation code 1..13 in bits 19-16, the source tag 0..5 in bits 15-8 and
\* the destination tag 0..4 in bits 7-0, for every instruction; NOP with Nil
\* operands gives 0x000C0201 and MOV 42, ACC gives 0x2A010000.
C2_EncodeBitLayout ==
    pc = "encoded" =>
        /\ DOMAIN word = BitIdx
        /\ \A k \in 0..7 : word[24 + k] = LitBit(inst, k)
        /\ \A k \in 0..1 : word[22 + k] = BitOfNat(SrcPortCode(inst), k)
        /\ \A k \in 0..1 : word[20 + k] = BitOfNat(DstPortCode(inst), k)
        /\ \A k \in 0..3 : word[16 + k] = BitOfNat(Op[inst.op], k)
        /\ \A k \in 0..7 : word[8 + k] = BitOfNat(Src_to_code(inst.src), k)
        /\ \A k \in 0..7 : word[k] = BitOfNat(Dst_to_code(inst.dst), k)
        /\ Op[inst.op] \in 1..13
        /\ Src_to_code(inst.src) \in 0..5
        /\ Dst_to_code(inst.dst) \in 0..4
        /\ (inst = Inst("Nop", Src_Nil, Dst_Nil) => word = WordOfBytes(0, 12, 2, 1))
        /\ (inst = Inst("Mov", Src_Lit(U32Of(42)), Dst_Acc) => word = WordOfBytes(42, 1, 0, 0))

\* a literal with bits above the low 8 and a port destination have been encoded
C2_Witness ==
    /\ pc = "encoded"
    /\ inst = Inst("Mov", Src_Lit(I32AsU32(-5)), Dst_P("Right"))
    /\ word = WordOfBytes(251, 49, 0, 3)

RECURSIVE FieldValue(_, _, _)
\* the number held by the n bits of w from bit lo upwards
FieldValue(w, lo, n) ==
    IF n = 0 THEN 0 ELSE w[lo] + 2 * FieldValue(w, lo + 1, n - 1)

Decode(w) ==
    [lit |-> FieldValue(w, 24, 8), src_port |-> FieldValue(w, 22, 2),
     dst_port |-> FieldValue(w, 20, 2), op |-> FieldValue(w, 16, 4),
     src |-> FieldValue(w, 8, 8), dst |-> FieldValue(w, 0, 8)]

LitMod256(i) == IF i.src.tag = "Lit" THEN FieldValue(i.src.val, 0, 8) ELSE 0

\* the encoding of every instruction of the pool
EncodingOf == [j \in InstPool |-> encode(j)]

SameUpToHighLiteralBits(i, j) ==
    /\ i.op = j.op
    /\ i.dst = j.dst
    /\ IF i.src.tag = "Lit"
       THEN j.src.tag = "Lit" /\ \A k \in 0..7 : i.src.val[k] = j.src.val[k]
       ELSE i.src = j.src

\* C3: the bit fields of encode(i) give back i's operation code, source and
\* destination tag codes, literal modulo 256 and port directions, and an
\* instruction with the same encoding differs from i at most in the bits of
\* a source literal above the low 8.
C3_EncodeRoundTrip ==
    pc = "encoded" =>
        /\ Decode(word) = [lit |-> LitMod256(inst), src_port |-> SrcPortCode(inst),
                           dst_port |-> DstPortCode(inst), op |-> Op[inst.op],
                           src |-> Src_to_code(inst.src), dst |-> Dst_to_code(inst.dst)]
        /\ \A j \in InstPool : EncodingOf[j] = word => SameUpToHighLiteralBits(inst, j)

\* two different instructions (literals 42 and 298) share the encoded word
C3_Witness ==
    /\ pc = "encoded"
    /\ inst = Inst("Add", Src_Lit(U32Of(298)), Dst_Nil)
    /\ word = encode(Inst("Add", Src_Lit(U32Of(42)), Dst_Nil))
    /\ Decode(word).lit = 42

(***************************************************************************)
(* Properties of encode_programs                                           *)
(***************************************************************************)
\* row-major node order: (0,0), (0,1), (1,0), (1,1)
NodeOrder == << <<1, 1>>, <<1, 2>>, <<2, 1>>, <<2, 2>> >>

NodeProgram(progs, n) == progs[NodeOrder[n][1]][NodeOrder[n][2]]

RECURSIVE InstsBefore(_, _)
\* the number of instructions of the nodes that come before node n
InstsBefore(progs, n) ==
    IF n = 1 THEN 0 ELSE InstsBefore(progs, n - 1) + Len(NodeProgram(progs, n - 1))

\* C1: the image holds, for each node in row-major order, one word with the
\* node's instruction count followed by the encoding of each of its
\* instructions in order, and nothing else: 4 + (instruction count) words;
\* a grid of four empty nodes gives [0,0,0,0].
C1_ImageLayout ==
    pc = "image" =>
        /\ Len(prog_words) = 4 + InstsBefore(programs, 4) + Len(NodeProgram(programs, 4))
        /\ \A n \in 1..4 :
              LET at == (n - 1) + InstsBefore(programs, n)
                  p == NodeProgram(programs, n)
              IN  /\ prog_words[at + 1] = WordOfBytes(0, 0, 0, Len(p))
                  /\ \A k \in 1..Len(p) : prog_words[at + 1 + k] = encode(p[k])
        /\ (programs = EmptyPrograms =>
                prog_words = <<WordOfBytes(0, 0, 0, 0), WordOfBytes(0, 0, 0, 0),
                               WordOfBytes(0, 0, 0, 0), WordOfBytes(0, 0, 0, 0)>>)

\* a grid whose four nodes hold different numbers of instructions
C1_Witness ==
    /\ pc = "image"
    /\ Len(programs[1][1]) = 2
    /\ Len(programs[1][2]) = 0
    /\ Len(programs[2][1]) = 1
    /\ Len(programs[2][2]) = 2
    /\ programs[1][1] # programs[2][2]
    /\ Len(prog_words) = 9

(***************************************************************************)
(* Properties of merkle_root                                               *)
(***************************************************************************)
\* the least power of two that is at least n, for 1 <= n <= 64
NextPowerOfTwo(n) == CHOOSE p \in {1, 2, 4, 8, 16, 32, 64} : p >= n /\ p < 2 * n

\* xs with zeros on the right up to the next power of two
ZeroPadded(xs) ==
    [k \in 1..NextPowerOfTwo(Len(xs)) |-> IF k <= Len(xs) THEN xs[k] ELSE ZeroFelt]

RECURSIVE TreeHash(_, _, _)
\* the hash of the balanced tree over ys[lo..hi]: hash(left half, right half)
TreeHash(ys, lo, hi) ==
    IF lo = hi THEN ys[lo]
    ELSE LET mid == lo + ((hi - lo + 1) \div 2)
         IN  [felt |-> "poseidon", left |-> TreeHash(ys, lo, mid - 1),
              right |-> TreeHash(ys, mid, hi)]

\* C5: for two or more leaves merkle_root pads with zeros on the right to the
\* next power of two and hashes adjacent pairs (left, right) level by level
\* down to one element: merkle_root([a,b]) = hash(a,b) and
\* merkle_root([a,b,c]) = hash(hash(a,b), hash(c,0)).
C5_MerkleReduction ==
    (pc = "root" /\ Len(leaves) >= 2) =>
        /\ root = TreeHash(ZeroPadded(leaves), 1, NextPowerOfTwo(Len(leaves)))
        /\ (Len(leaves) = 2 => root = hash_pair(leaves[1], leaves[2]))
        /\ (Len(leaves) = 3 =>
                root = hash_pair(hash_pair(leaves[1], leaves[2]),
                                 hash_pair(leaves[3], ZeroFelt)))

\* five different-looking leaves have been padded to eight and reduced
C5_Witness ==
    /\ pc = "root"
    /\ Len(leaves) = 5
    /\ leaves[1] # leaves[2]
    /\ leaves[5] # ZeroFelt
    /\ root.right = hash_pair(hash_pair(leaves[5], ZeroFelt), hash_pair(ZeroFelt, ZeroFelt))

\* C6: merkle_root of the empty list is the zero element and merkle_root of
\* a one-element list is that element itself, not a hash.
C6_MerkleSmallLists ==
    pc = "root" =>
        /\ (Len(leaves) = 0 => root = ZeroFelt)
        /\ (Len(leaves) = 1 => root = leaves[1] /\ root.felt = "u32")

\* a single non-zero leaf has been reduced
C6_Witness ==
    /\ pc = "root"
    /\ Len(leaves) = 1
    /\ leaves[1] = BigUintFrom(U32Of(12345))
    /\ root = BigUintFrom(U32Of(12345))

(***************************************************************************)
(* Properties of compute_program_merkle_root                               *)
(***************************************************************************)
\* the encoded words of a node program as field elements
WordsOf(p) == [k \in 1..Len(p) |-> [felt |-> "u32", val |-> encode(p[k])]]

\* the leaf of a node: 0 when empty, the raw word of a single instruction,
\* else the tree hash of the zero-padded words
LeafOf(p) ==
    IF Len(p) = 0 THEN ZeroFelt
    ELSE IF Len(p) = 1 THEN WordsOf(p)[1]
    ELSE TreeHash(ZeroPadded(WordsOf(p)), 1, NextPowerOfTwo(Len(p)))

\* hash(hash(l00, l01), hash(l10, l11))
RootOfLeaves(g) ==
    [felt |-> "poseidon",
     left |-> [felt |-> "poseidon", left |-> LeafOf(g[1][1]), right |-> LeafOf(g[1][2])],
     right |-> [felt |-> "poseidon", left |-> LeafOf(g[2][1]), right |-> LeafOf(g[2][2])]]

\* b is 32 bytes: zeros, then the n significant big-endian bytes of v
IsLeftPadded(b, v, n) ==
    /\ Len(b) = 32
    /\ \A k \in 1..(32 - n) : b[k] = [val |-> 0]
    /\ \A k \in 1..n : b[(32 - n) + k] = [of |-> v, at |-> k]

\* C7: the root is hash(hash(l00,l01), hash(l10,l11)) over the four node
\* leaves in row-major order, where a leaf is 0 for an empty node and else
\* the Merkle reduction of the node's encoded words (the raw word for one
\* instruction), serialized as 32 big-endian bytes left-padded with zeros.
C7_CommitShape ==
    pc = "committed" =>
        /\ IsLeftPadded(bytes, RootOfLeaves(programs), poseidon_len)
        /\ IsLeftPadded(other_bytes, RootOfLeaves(other_programs), poseidon_len)

\* a grid with an empty node, a one-instruction node and a three-instruction
\* node, whose root has 31 significant bytes
C7_Witness ==
    /\ pc = "committed"
    /\ poseidon_len = 31
    /\ Len(other_programs[1][1]) = 0
    /\ Len(other_programs[1][2]) = 1
    /\ Len(other_programs[2][2]) = 3
    /\ other_bytes[1] = [val |-> 0]
    /\ other_bytes[2].of.left.right = [felt |-> "u32", val |-> encode(other_programs[1][2][1])]

\* C8: the root depends on the encoded words only, and (the hash being
\* collision-free and never 0 or an instruction word) two grids whose words
\* differ in one instruction or in one node's length have different roots;
\* zero padding does not make a shorter program collide with a longer one.
C8_CommitSensitive ==
    pc = "committed" =>
        ((encode_programs(programs) = encode_programs(other_programs))
            <=> (bytes = other_bytes))

\* a three-instruction node (padded to four) against the same node with a
\* fourth instruction; and elsewhere two different grids with one image
C8_Witness ==
    /\ pc = "committed"
    /\ Len(programs[1][2]) = 3
    /\ Len(other_programs[1][2]) = 4
    /\ SubSeq(other_programs[1][2], 1, 3) = programs[1][2]
    /\ bytes # other_bytes

(***************************************************************************)
(* Properties of generate_args                                             *)
(***************************************************************************)
\* C9: generate_args returns len(inputs), the inputs, len(expected), the
\* expected values, the root, len(prog_words), the program words, in this
\* order: len(inputs) + len(expected) + len(prog_words) + 4 entries, the
\* root at index len(inputs) + len(expected) + 2 (counted from 0).
C9_ArgsOrder ==
    pc = "args" =>
        LET ni == Len(inputs)
            ne == Len(expected)
            nw == Len(prog_words)
        IN  /\ Len(args) = ni + ne + nw + 4
            /\ args[1] = json_value_from_u32(WordOfBytes(0, 0, 0, ni))
            /\ \A k \in 1..ni : args[1 + k] = json_value_from_u32(inputs[k])
            /\ args[ni + 2] = json_value_from_u32(WordOfBytes(0, 0, 0, ne))
            /\ \A k \in 1..ne : args[ni + 2 + k] = json_value_from_u32(expected[k])
            /\ args[(ni + ne + 2) + 1] = bytes_to_felt252(merkle_root_bytes)
            /\ args[ni + ne + 4] = json_value_from_u32(WordOfBytes(0, 0, 0, nw))
            /\ \A k \in 1..nw : args[ni + ne + 4 + k] = json_value_from_u32(prog_words[k])

\* two inputs, one expected value and two program words around the root of
\* the test of cairo_abi.rs
C9_Witness ==
    /\ pc = "args"
    /\ inputs = <<U32Of(42), I32AsU32(-5)>>
    /\ expected = <<I32AsU32(-5)>>
    /\ prog_words = <<U32Of(42), U32Of(42)>>
    /\ args = <<"0x2", "0x2a", "0xfffffffb", "0x1", "0xfffffffb", "0x12345678",
                "0x2", "0x2a", "0x2a">>

(***************************************************************************)
(* Properties of parse_assembly                                            *)
(***************************************************************************)
\* the source line i as the first pass sees it
SourceLine(i) == trim(code[i])

IsSkippedLine(i) ==
    \/ SourceLine(i) = ""
    \/ starts_with(SourceLine(i), "#")
    \/ starts_with(SourceLine(i), "//")

IsNodeLine(i) == ~IsSkippedLine(i) /\ starts_with(SourceLine(i), "NODE")

IsLabelLine(i) ==
    ~IsSkippedLine(i) /\ ~IsNodeLine(i) /\ ends_with(SourceLine(i), ":")

IsInstLine(i) == ~IsSkippedLine(i) /\ ~IsNodeLine(i) /\ ~IsLabelLine(i)

\* the node the source line i belongs to: the one of the nearest NODE line
\* with coordinates at or above it
RECURSIVE NodeAt(_)
NodeAt(i) ==
    IF i = 0 THEN None
    ELSE IF /\ IsNodeLine(i)
            /\ Len(split_whitespace(SourceLine(i))) >= 2
            /\ parse_node_coords(split_whitespace(SourceLine(i))[2]).ok
    THEN parse_node_coords(split_whitespace(SourceLine(i))[2]).val
    ELSE NodeAt(i - 1)

\* the instruction lines the node of line i holds above line i
PendingBefore(i) ==
    Cardinality({j \in 1..(i - 1) : IsInstLine(j) /\ NodeAt(j) = NodeAt(i)})

LabelName(i) == trim_end_matches(SourceLine(i), {":"})

OneOperandOps == {"ADD", "SUB", "JMP", "JZ", "JNZ", "JGZ", "JLZ"}

\* the instruction line j has the token name as its source operand
UsesAsSource(j, name) ==
    LET parts == split_whitespace(SourceLine(j))
    IN  /\ IsInstLine(j)
        /\ \/ to_uppercase(parts[1]) \in OneOperandOps /\ Len(parts) >= 2
              /\ parts[2] = name
           \/ to_uppercase(parts[1]) = "MOV" /\ Len(parts) >= 3
              /\ trim_end_matches(parts[2], {","}) = name

\* the instruction the returned grid holds for the instruction line j
ParsedInst(j) == parse_result.val[NodeAt(j)[1] + 1][NodeAt(j)[2] + 1][PendingBefore(j) + 1]

\* no line below line i declares the label of line i again in its node
IsLastDeclaration(i) ==
    \A k \in 1..Len(code) :
        (IsLabelLine(k) /\ NodeAt(k) = NodeAt(i) /\ LabelName(k) = LabelName(i)) => k <= i

\* C4: when parse_assembly returns a grid, a label declared in a node that
\* holds N instruction lines at that point is Src::Lit(N) in every
\* instruction of that node that has the label as its source operand, be the
\* instruction below the declaration or above it; N = 0 at the top of a node.
C4_LabelResolvesToCount ==
    (pc = "parsed" /\ parse_result.ok) =>
        \A i, j \in 1..Len(code) :
            (/\ IsLabelLine(i)
             /\ NodeAt(i) # None
             /\ NodeAt(j) = NodeAt(i)
             /\ UsesAsSource(j, LabelName(i)))
            => ParsedInst(j).src = Src_Lit(U32Of(PendingBefore(i)))

\* C4 (amended): when parse_assembly returns a grid, a label is Src::Lit(N)
\* in every instruction of its node that has the label as its source operand,
\* be the instruction below the declaration or above it, where N is the
\* number of instruction lines the node holds at the LAST declaration of the
\* label in that node (a later declaration of a name replaces the earlier).
C4_LabelResolvesToLastCount ==
    (pc = "parsed" /\ parse_result.ok) =>
        \A i, j \in 1..Len(code) :
            (/\ IsLabelLine(i)
             /\ IsLastDeclaration(i)
             /\ NodeAt(i) # None
             /\ NodeAt(j) = NodeAt(i)
             /\ UsesAsSource(j, LabelName(i)))
            => ParsedInst(j).src = Src_Lit(U32Of(PendingBefore(i)))

\* a jump above the second declaration of its label, which holds two
\* instruction lines above it
C4_Witness ==
    /\ pc = "parsed"
    /\ parse_result.ok
    /\ code = <<"NODE (0,0)", "loop:", "JNZ loop", "ADD 1", "loop:">>
    /\ IsLabelLine(5) /\ IsLastDeclaration(5) /\ UsesAsSource(3, LabelName(5))
    /\ ParsedInst(3) = Inst("Jnz", Src_Lit(U32Of(2)), Dst_Nil)

(***************************************************************************)
(* Properties of assemble_program                                          *)
(***************************************************************************)
\* the root in an argument list built for the given inputs and expected values
RootArg(args_) == args_[Len(inputs) + Len(expected) + 3]

\* the words in an argument list built for the given inputs and expected values
WordArgs(args_) == SubSeq(args_, Len(inputs) + Len(expected) + 5, Len(args_))

\* C10: the root assemble_program hands to generate_args is determined by
\* prog_words, the words placed in the same argument list: two sources
\* assembled to different images get argument lists with different roots.
C10_RootBoundToImage ==
    (/\ pc = "assembled"
     /\ Len(assembled) = 1
     /\ assembled[1].result.ok
     /\ assemble_result.ok
     /\ assembled[1].prog_words # prog_words)
    => RootArg(assembled[1].args) # RootArg(args)

NoOperandOps == {"NOP", "HLT", "NEG", "SAV", "SWP"}

Mnemonics == NoOperandOps \cup OneOperandOps \cup {"MOV"}

\* the operands an operation takes
OperandsTaken(mnemonic) ==
    IF mnemonic \in NoOperandOps THEN 0
    ELSE IF mnemonic \in OneOperandOps THEN 1
    ELSE 2

\* the instruction line j is recorded for a node and has more or fewer
\* operands than its operation takes
HasOperandMismatch(j) ==
    LET parts == split_whitespace(SourceLine(j))
    IN  /\ IsInstLine(j)
        /\ NodeAt(j) # None
        /\ to_uppercase(parts[1]) \in Mnemonics
        /\ Len(parts) - 1 # OperandsTaken(to_uppercase(parts[1]))

\* C11: parse_assembly returns an error, and no grid, whenever a recorded
\* instruction line has fewer or more operands than its operation takes
\* (0 for NOP, HLT, NEG, SAV, SWP; 1 for ADD, SUB and the jumps; 2 for MOV).
C11_OperandMismatchFatal ==
    (pc = "parsed" /\ \E j \in 1..Len(code) : HasOperandMismatch(j)) => ~parse_result.ok

\* the coordinate token written (row,col)
CoordToken(row, col) == "(" \o CharAt(Digits, row + 1) \o "," \o CharAt(Digits, col + 1) \o ")"

\* the first pass is about to read a NODE line that has a coordinate token
ReadsNodeToken ==
    /\ pc = "first_pass"
    /\ IsNodeLine(line_no + 1)
    /\ Len(split_whitespace(SourceLine(line_no + 1))) >= 2

\* the coordinate token of the NODE line the first pass is about to read
NextToken == split_whitespace(SourceLine(line_no + 1))[2]

\* no table and no program outside the four slots of the grid
InsideGrid ==
    /\ DOMAIN node_instructions \subseteq (0..1) \X (0..1)
    /\ DOMAIN node_labels \subseteq (0..1) \X (0..1)
    /\ current_node # None => current_node \in (0..1) \X (0..1)
    /\ DOMAIN programs = 1..2
    /\ \A r \in 1..2 : DOMAIN programs[r] = 1..2
    /\ parse_result.ok => parse_result.val = programs

\* C12: a NODE line with the coordinate token (row,col) makes (row,col) the
\* current node when row and col are 0 or 1, and makes parse_assembly return
\* an error otherwise (row or col >= 2, no number, not two components); no
\* instruction is ever stored outside the four slots of the 2x2 grid.
C12_NodeSwitchOrError ==
    /\ []InsideGrid
    /\ [][ReadsNodeToken =>
            IF \E row, col \in 0..1 : NextToken = CoordToken(row, col)
            THEN /\ \E row, col \in 0..1 :
                       NextToken = CoordToken(row, col) /\ current_node' = <<row, col>>
                 /\ current_node' \in DOMAIN node_instructions'
                 /\ pc' # "parsed"
                 /\ parse_result' = NoResult
            ELSE /\ pc' = "parsed"
                 /\ ~parse_result'.ok
                 /\ parse_result' # NoResult]_vars

\* a switch to node (1,0), an instruction stored there, and a switch to (0,1)
C12_Witness ==
    /\ pc = "parsed"
    /\ code = <<"NODE (1,0)", "NOP", "NODE (0,1)">>
    /\ current_node = <<0, 1>>
    /\ parse_result = Ok(<< << <<>>, <<>> >>, << <<Inst("Nop", Src_Nil, Dst_Nil)>>, <<>> >> >>)

\* the first pass is about to read a label or instruction line while no
\* NODE line has selected a node
ReadsLineWithoutNode ==
    /\ pc = "first_pass"
    /\ current_node = None
    /\ IsLabelLine(line_no + 1) \/ IsInstLine(line_no + 1)

\* the instruction lines of the source text that belong to the node
InstLinesOf(node) == {j \in 1..Len(code) : IsInstLine(j) /\ NodeAt(j) = node}

\* C16: a label or instruction line above the first NODE declaration is
\* dropped: reading it changes no table, no list of pending instructions and
\* not the current node, and raises no error, also when the line is no
\* instruction; a returned grid holds only the lines of the nodes.
C16_LinesBeforeNodeDropped ==
    /\ [][ReadsLineWithoutNode =>
            /\ node_labels' = node_labels
            /\ node_instructions' = node_instructions
            /\ current_node' = None
            /\ programs' = programs
            /\ parse_result' = NoResult
            /\ pc' # "parsed"]_vars
    /\ [](pc = "second_pass" =>
            \A node \in (0..1) \X (0..1) :
                IF node \in DOMAIN node_instructions
                THEN Len(node_instructions[node]) = Cardinality(InstLinesOf(node))
                ELSE InstLinesOf(node) = {})
    /\ []((/\ pc = "parsed"
            /\ \A j \in 1..Len(code) :
                  ~(IsNodeLine(j) /\ Len(split_whitespace(SourceLine(j))) >= 2))
           => parse_result = Ok(EmptyPrograms))

\* an unknown operation and a label above the first NODE line, and a grid
\* that holds the one instruction below it
C16_Witness ==
    /\ pc = "parsed"
    /\ code = <<"FOO", "top:", "NODE (0,1)">>
    /\ node_labels = (<<0, 1>> :> EmptyMap)
    /\ node_instructions = (<<0, 1>> :> <<>>)
    /\ parse_result = Ok(EmptyPrograms)

\* the first pass is about to read a line that starts with NODE and has no
\* second token
ReadsNodeWithoutToken ==
    /\ pc = "first_pass"
    /\ IsNodeLine(line_no + 1)
    /\ Len(split_whitespace(SourceLine(line_no + 1))) < 2

\* the program the returned grid holds for the node
ProgramOf(node) == parse_result.val[node[1] + 1][node[2] + 1]

\* C18: a line that starts with NODE and has no second token raises no
\* error and leaves the current node, the label tables and the pending
\* instruction lists as they are; the instructions below it go to the node
\* selected before it, or nowhere when none was selected.
C18_NodeWithoutTokenIgnored ==
    /\ [][ReadsNodeWithoutToken =>
            /\ current_node' = current_node
            /\ node_labels' = node_labels
            /\ node_instructions' = node_instructions
            /\ programs' = programs
            /\ parse_result' = NoResult
            /\ pc' # "parsed"]_vars
    /\ []((pc = "parsed" /\ parse_result.ok) =>
            \A node \in (0..1) \X (0..1) :
                Len(ProgramOf(node)) = Cardinality(InstLinesOf(node)))

\* the instruction below NODE(0,1), written without space, is stored in the
\* node (1,0) selected above it
C18_Witness ==
    /\ pc = "parsed"
    /\ code = <<"NODE (1,0)", "NODE(0,1)", "NOP">>
    /\ current_node = <<1, 0>>
    /\ parse_result = Ok(<< << <<>>, <<>> >>, << <<Inst("Nop", Src_Nil, Dst_Nil)>>, <<>> >> >>)

\* the error of the lines that are no instruction: an unknown operation, an
\* unknown port direction, a malformed operand
ErrorOfLine ==
    [FOO |-> "Unknown operation: FOO"]
        @@ ("MOV ACC, P:DIAG" :> "Unknown port: DIAG")
        @@ ("ADD 1x" :> "Invalid source operand: 1x")

\* the instruction line j is recorded for a node and is no instruction
IsFailingLine(j) ==
    IsInstLine(j) /\ NodeAt(j) # None /\ SourceLine(j) \in DOMAIN ErrorOfLine

\* C13: if a recorded instruction line of some node does not parse (unknown
\* operation, unknown port direction, malformed operand), parse_assembly
\* returns an error, that of such a line, and no grid, whatever the other
\* nodes and the lines above hold; a returned grid holds every instruction
\* line of every node.
C13_ParseFailureFatal ==
    pc = "parsed" =>
        IF \E j \in 1..Len(code) : IsFailingLine(j)
        THEN /\ ~parse_result.ok
             /\ DOMAIN parse_result = {"ok", "err"}
             /\ \E j \in 1..Len(code) :
                   IsFailingLine(j) /\ parse_result.err = ErrorOfLine[SourceLine(j)]
        ELSE /\ parse_result.ok
             /\ \A node \in (0..1) \X (0..1) :
                   Len(ProgramOf(node)) = Cardinality(InstLinesOf(node))

\* the valid node (0,0) is already assembled when the unknown operation
\* of node (0,1) is met
C13_Witness ==
    /\ pc = "parsed"
    /\ code = <<"NODE (0,0)", "NOP", "NODE (0,1)", "FOO">>
    /\ programs[1][1] = <<Inst("Nop", Src_Nil, Dst_Nil)>>
    /\ parse_result = Err("Unknown operation: FOO")

\* the first of two runs on the source text failed in parse_assembly: no
\* program word was encoded
FirstRunFailedToParse == assembled[1].prog_words = <<>>

\* C14: the result of parse_assembly, the grid or the error reported,
\* depends on the source text only and not on the order in which the second
\* pass visits the nodes: a second run on the same text returns the error of
\* the first run, or a grid that encode_programs turns into the same words.
C14_ParseDeterministic ==
    (pc = "parsed" /\ Len(assembled) = 1 /\ assembled[1].code = code) =>
        IF FirstRunFailedToParse
        THEN parse_result = assembled[1].result
        ELSE /\ parse_result.ok
             /\ encode_programs(parse_result.val) = assembled[1].prog_words

\* the name is declared as a label in the node of line j
DeclaredInNodeOf(j, name) ==
    \E i \in 1..Len(code) : IsLabelLine(i) /\ NodeAt(i) = NodeAt(j) /\ LabelName(i) = name

\* the tokens that are a source operand by themselves, and the operand
OperandByItself == ("1" :> Src_Lit(U32Of(1))) @@ ("ACC" :> Src_Acc)

SourceTokens == {"loop", "1", "ACC"}

\* C15: a source operand that names no label of its own node (a name
\* declared nowhere or only in another node) is parsed as an ordinary source
\* operand: parse_assembly fails with an invalid-operand error unless the
\* token is an integer or an operand keyword, and then the operand is that
\* integer or keyword, never the program counter the name has in another node.
C15_LabelsPerNode ==
    pc = "parsed" =>
        \A j \in 1..Len(code) : \A name \in SourceTokens :
            (/\ NodeAt(j) # None
             /\ UsesAsSource(j, name)
             /\ ~DeclaredInNodeOf(j, name))
            => IF name \in DOMAIN OperandByItself
               THEN parse_result.ok => ParsedInst(j).src = OperandByItself[name]
               ELSE parse_result = Err("Invalid source operand: " \o name)

\* the label 1 is bound to 0 in node (0,0); the jump to 1 in node (0,1)
\* gets the number 1
C15_Witness ==
    /\ pc = "parsed"
    /\ code = <<"NODE (0,0)", "1:", "NODE (0,1)", "JMP 1">>
    /\ node_labels[<<0, 0>>] = ("1" :> 0)
    /\ parse_result.ok
    /\ ParsedInst(4) = Inst("Jmp", Src_Lit(U32Of(1)), Dst_Nil)

\* the instruction lines of the node, in source order
RECURSIVE LinesOfNode(_, _)
LinesOfNode(node, k) ==
    IF k = 0 THEN <<>>
    ELSE IF IsInstLine(k) /\ NodeAt(k) = node
    THEN Append(LinesOfNode(node, k - 1), SourceLine(k))
    ELSE LinesOfNode(node, k - 1)

\* the last line that declares the name in the node, 0 for none
LastDeclarationIn(node, name) ==
    LET declarations == {i \in 1..Len(code) :
                            IsLabelLine(i) /\ NodeAt(i) = node /\ LabelName(i) = name}
    IN  IF declarations = {} THEN 0
        ELSE CHOOSE i \in declarations : \A k \in declarations : k <= i

\* the instruction an instruction line of the label sources stands for in
\* the node
InstructionOf(node, line) ==
    IF line = "ADD 1" THEN Inst("Add", Src_Lit(U32Of(1)), Dst_Nil)
    ELSE Inst("Jnz", Src_Lit(U32Of(PendingBefore(LastDeclarationIn(node, "loop")))), Dst_Nil)

\* C17: a NODE line for a node declared before does not reset the node: the
\* pending instructions and labels of its earlier sections are kept, the
\* instructions of the new section are appended, and a label of the new
\* section is bound to the count of all instructions of the node so far, so
\* that each node program is its sections joined in source order.
C17_NodeSectionsJoined ==
    pc = "parsed" =>
        /\ \A node \in DOMAIN node_instructions :
              LET last == LastDeclarationIn(node, "loop")
              IN  /\ node_instructions[node] = LinesOfNode(node, Len(code))
                  /\ last # 0 =>
                        /\ "loop" \in DOMAIN node_labels[node]
                        /\ node_labels[node]["loop"] = PendingBefore(last)
        /\ parse_result.ok =>
              \A node \in (0..1) \X (0..1) :
                  LET lines == LinesOfNode(node, Len(code))
                  IN  /\ Len(ProgramOf(node)) = Len(lines)
                      /\ \A k \in 1..Len(lines) :
                            ProgramOf(node)[k] = InstructionOf(node, lines[k])

\* node (0,0) is entered again after node (0,1): its earlier instruction is
\* kept and the label declared after the re-entry is bound to 1
C17_Witness ==
    /\ pc = "parsed"
    /\ code = <<"NODE (0,0)", "ADD 1", "NODE (0,1)", "NODE (0,0)", "loop:">>
    /\ node_labels[<<0, 0>>] = ("loop" :> 1)
    /\ node_instructions[<<0, 0>>] = <<"ADD 1">>
    /\ parse_result.ok
=============================================================================
